---- MODULE Spec2Model ----
(***************************************************************************)
(* Daily reconciliation pipeline of auto_main.py (class EveryDayAuto):     *)
(* window calculation, extraction, normalisation, time filter, report      *)
(* writer and the per-client loop of activate.                             *)
(*                                                                         *)
(* A datetime is [secs, micro]: whole seconds since midnight of day 0 and  *)
(* the microsecond field.  Day 0 is a Monday, so weekday = day % 7.        *)
(* A nullable number is [na, v]; a status cell is a raw code, a label or   *)
(* missing; a timestamp cell is the text the query returns ("str", with    *)
(* frac = NoFrac when the text has no fractional part), unparseable text   *)
(* ("bad"), None ("none"), a parsed datetime ("dt") or NaT ("nat").        *)
(***************************************************************************)
EXTENDS Integers, Sequences, FiniteSets, TLC

VARIABLES
    pc,           \* position of the process / of the function under study
    run,          \* number of the job invocation
    idx,          \* position of the for loop of activate in CLIENTS
    now,          \* the wall clock as last read by datetime.now()
    delta_time,   \* argument of get_current_day
    start_date,   \* self.start_date
    end_date,     \* self.end_date
    col_filter,   \* self.col_filter
    df,           \* the local DataFrame df of activate
    DF,           \* self.DF
    client_name,  \* self.client_name
    dirExists,    \* whether the output directory exists
    files,        \* the report files in the output directory
    table,        \* the rows of the data store, in the order the query returns them
    fetched,      \* the rows as create_df returned them (history)
    cur,          \* what was done for the client of this iteration (history)
    windows,      \* the windows this invocation has computed (history)
    reported      \* <<invocation, external id>> of every row written (history)

vars == <<pc, run, idx, now, delta_time, start_date, end_date, col_filter, df, DF,
          client_name, dirExists, files, table, fetched, cur, windows, reported>>

----------------------------------------------------------------------------
\* Bounds of the model.

\* first day of the modelled calendar (a multiple of 7 is a Monday)
FirstDay == 7
\* number of calendar days from which the inputs of get_current_day are drawn
WindowDays == 7
\* largest number of rows of a record set handed to a function under study
MaxRows == 2

----------------------------------------------------------------------------
\* Time.

SecondsPerHour == 60 * 60
SecondsPerDay == 24 * SecondsPerHour
LastMicro == 1000000 - 1

Datetime(secs, micro) == [secs |-> secs, micro |-> micro]
At(day, hour, minute, second) ==
    Datetime(day * SecondsPerDay + hour * SecondsPerHour + minute * 60 + second, 0)

DayOf(d) == d.secs \div SecondsPerDay
HourOf(d) == (d.secs % SecondsPerDay) \div SecondsPerHour

\* datetime.weekday(): Monday is 0
weekday(d) == DayOf(d) % 7

\* datetime - timedelta(days=n)
MinusDays(d, n) == [d EXCEPT !.secs = @ - n * SecondsPerDay]

\* datetime.replace(hour=h, minute=0, second=0, microsecond=0)
ReplaceHour(d, h) == Datetime(DayOf(d) * SecondsPerDay + h * SecondsPerHour, 0)

\* a < b, a <= b on datetimes
DtLess(a, b) == a.secs < b.secs \/ (a.secs = b.secs /\ a.micro < b.micro)
DtLeq(a, b) == a = b \/ DtLess(a, b)

get_current_day_lookback3(today, dt) ==
    LET yesterday == MinusDays(today, 3)
    IN  <<ReplaceHour(yesterday, dt), ReplaceHour(today, dt)>>

get_current_day(today, dt) ==
    LET yesterday == MinusDays(today, IF weekday(today) = 0 THEN 3 ELSE 1)
        start_of_yesterday == ReplaceHour(yesterday, dt)
        stop_of_yesterday == ReplaceHour(today, dt)
    IN  <<start_of_yesterday, stop_of_yesterday>>

----------------------------------------------------------------------------
\* Configuration of the class.

\* CLIENTS, in the iteration order of the dict
ClientOrder == <<1282, 1130, 606, 1359, 741, 1160, 1235, 1352>>

CLIENTS ==
    [c \in {1282, 1130, 606, 1359, 741, 1160} |->
        [columns_filter |-> "accepted_at", plus_time |-> 0]]
    @@
    [c \in {1235, 1352} |-> [columns_filter |-> "accepted_at", plus_time |-> 3]]

\* STATUS_DICT (the Russian labels are transliterated)
STATUS_DICT ==
    (2 :> "V obrabotke") @@ (3 :> "Provalno") @@ (4 :> "Succeed")
    @@ (8 :> "Feil po nashei vine") @@ (10 :> "Otmeneno") @@ (11 :> "Istek")
    @@ (12 :> "Reversal") @@ (13 :> "Otmena do rekvizitov")

FILE_PREFIXES ==
    ("P2PW" :> "Report_Transactions") @@ ("WW" :> "Report_Transactions_UZS")
    @@ ("LR" :> "Report_Transactions_LR") @@ ("P2P" :> "Report_Transactions_NEW")

\* the columns the query of create_df selects
QueryColumns ==
    {"external_id", "client_order_id", "client_id", "currency_id", "created_at",
     "accepted_at", "amount", "accepted_amount", "service_commission",
     "mid_commission", "status_name", "comment", "type", "provodka", "mid_id",
     "client_name", "currency_name", "transaction_type"}

\* selected_columns of result_save
selected_columns ==
    {"external_id", "client_order_id", "client_name", "currency_name",
     "created_at", "accepted_at", "amount", "overall_commission",
     "status_name", "transaction_type", "comment", "accepted_amount"}

----------------------------------------------------------------------------
\* Cells, rows and DataFrames.

Null == [na |-> TRUE, v |-> 0]
Num(x) == [na |-> FALSE, v |-> x]

Code(c) == [t |-> "code", code |-> c, label |-> ""]
Label(l) == [t |-> "label", code |-> 0, label |-> l]
NoStatus == [t |-> "na", code |-> 0, label |-> ""]

NoFrac == 0 - 1
Str(d, frac) == [t |-> "str", secs |-> d.secs, frac |-> frac]
BadStr == [t |-> "bad", secs |-> 0, frac |-> NoFrac]
None == [t |-> "none", secs |-> 0, frac |-> NoFrac]
Dt(d) == [t |-> "dt", secs |-> d.secs, frac |-> d.micro]
NaT == [t |-> "nat", secs |-> 0, frac |-> 0]

\* pd.isna of a timestamp cell
isna(c) == c.t \in {"none", "nat"}
\* the datetime of a parsed cell
AsDatetime(c) == Datetime(c.secs, c.frac)

Frame(cols, rows) == [cols |-> cols, rows |-> rows]
\* pd.DataFrame()
EmptyFrame == Frame({}, <<>>)
\* DataFrame.empty: some axis has length 0
empty(f) == f.cols = {} \/ f.rows = <<>>

\* the subsequence of s of the positions in keep (selection by a boolean mask)
Filter(s, keep) ==
    LET F[i \in 0..Len(s)] ==
            IF i = 0 THEN <<>>
            ELSE IF i \in keep THEN Append(F[i - 1], s[i]) ELSE F[i - 1]
    IN  F[Len(s)]

----------------------------------------------------------------------------
\* create_df: the query and its failure.

\* accepted_at BETWEEN 'start' AND 'stop' on the stored value (closed interval);
\* a NULL accepted_at satisfies no comparison
Between(c, start, stop) ==
    /\ c.t = "str"
    /\ LET d == Datetime(c.secs, IF c.frac = NoFrac THEN 0 ELSE c.frac)
       IN  DtLeq(start, d) /\ DtLeq(d, stop)

InQuery(tbl, idClient, start, stop, i) ==
    /\ tbl[i].client_id = idClient
    /\ Between(tbl[i].accepted_at, start, stop)

\* ok is whether pd.read_sql succeeded
create_df(tbl, idClient, start_of_yesterday, stop_of_yesterday, ok) ==
    LET hit == {i \in DOMAIN tbl :
                   InQuery(tbl, idClient, start_of_yesterday, stop_of_yesterday, i)}
    IN  IF ok THEN Frame(QueryColumns, Filter(tbl, hit)) ELSE EmptyFrame


----------------------------------------------------------------------------
\* set_new_col.

\* the columns set_new_col reads; a missing one raises KeyError
NormalizeColumns(col) ==
    {"transaction_type", "amount", "accepted_amount", "status_name",
     "mid_commission", "service_commission", "external_id", col}

\* df.loc[df['transaction_type'] == 'withdraw', 'amount'] = df['accepted_amount']
\* df.loc[df['amount'] == 0, 'amount'] = df['accepted_amount']
BackfillKeepsZero(r) ==
    IF r.transaction_type = "withdraw" THEN [r EXCEPT !.amount = r.accepted_amount]
    ELSE r

Backfill(r) ==
    LET w == IF r.transaction_type = "withdraw"
             THEN [r EXCEPT !.amount = r.accepted_amount] ELSE r
    IN  IF ~w.amount.na /\ w.amount.v = 0
        THEN [w EXCEPT !.amount = w.accepted_amount] ELSE w

\* Series.map(STATUS_DICT): a value that is no key of the dict becomes NaN
MapStatusKeepsLabel(c) ==
    IF c.t = "code" /\ c.code \in DOMAIN STATUS_DICT THEN Label(STATUS_DICT[c.code])
    ELSE IF c.t = "label" THEN c ELSE NoStatus

MapStatus(c) ==
    IF c.t = "code" /\ c.code \in DOMAIN STATUS_DICT THEN Label(STATUS_DICT[c.code])
    ELSE NoStatus

\* ((mid_commission + service_commission) * (accepted_amount / 100)).round(3),
\* held in thousandths; rates and amounts are whole numbers, so the product is
\* a whole number of thousandths
Commission(r) ==
    IF r.mid_commission.na \/ r.service_commission.na \/ r.accepted_amount.na
    THEN Null
    ELSE Num((r.mid_commission.v + r.service_commission.v) * r.accepted_amount.v * 10)

\* df.drop_duplicates('external_id'): the first row of each external_id stays
FirstOfId(s, i) == \A j \in 1..(i - 1) : s[j].external_id # s[i].external_id
LastOfId(s, i) == \A j \in (i + 1)..Len(s) : s[j].external_id # s[i].external_id

drop_duplicates_keep_last(rows) ==
    Filter(rows, {i \in DOMAIN rows : LastOfId(rows, i)})

drop_duplicates(rows) == Filter(rows, {i \in DOMAIN rows : FirstOfId(rows, i)})

\* order of the values of a text column: timestamps by their text, an
\* unparseable text (it starts with a letter) after every timestamp
CellLess(a, b) ==
    CASE a.t = "bad" -> FALSE
      [] b.t = "bad" -> TRUE
      [] OTHER -> a.secs < b.secs \/ (a.secs = b.secs /\ a.frac < b.frac)

IsSorted(rows, col) ==
    \A i, j \in DOMAIN rows :
        i < j =>
            /\ isna(rows[i][col]) => isna(rows[j][col])
            /\ (~isna(rows[i][col]) /\ ~isna(rows[j][col]))
                   => ~CellLess(rows[j][col], rows[i][col])

Perms(n) == {p \in [1..n -> 1..n] : \A i, j \in 1..n : p[i] = p[j] => i = j}

\* df.sort_values(col): ascending, missing values last; the default sort is
\* not stable, so rows with equal keys may come out in any order
sort_values(rows, col) ==
    {s \in {[k \in 1..Len(rows) |-> rows[p[k]]] : p \in Perms(Len(rows))} :
        IsSorted(s, col)}

NormalizeRow(r) ==
    LET b == Backfill(r)
        m == [b EXCEPT !.status_name = MapStatus(b.status_name)]
    IN  [m EXCEPT !.overall_commission = Commission(m)]

\* the possible outcomes of set_new_col(df) with self.col_filter = col
set_new_col(f, col) ==
    IF ~(NormalizeColumns(col) \subseteq f.cols)
    THEN {[raised |-> TRUE, df |-> f]}
    ELSE LET mapped == [i \in DOMAIN f.rows |-> NormalizeRow(f.rows[i])]
             unique == drop_duplicates(mapped)
         IN  {[raised |-> FALSE,
               df |-> Frame(f.cols \cup {"overall_commission"}, s)] :
                  s \in sort_values(unique, col)}

----------------------------------------------------------------------------
\* remove_microseconds and filter_data_time.

\* re.sub(r'\.\d+', '', value); None for a missing value
remove_microseconds(c) ==
    CASE isna(c) -> None
      [] c.t = "str" -> [c EXCEPT !.frac = NoFrac]
      [] OTHER -> c

\* pd.to_datetime(value, errors='coerce')
to_datetime(c) ==
    CASE c.t = "str" -> Dt(Datetime(c.secs, IF c.frac = NoFrac THEN 0 ELSE c.frac))
      [] c.t = "dt" -> c
      [] OTHER -> NaT

\* value + pd.to_timedelta(plus, unit='hours')
PlusHours(c, plus) ==
    IF c.t = "dt" THEN [c EXCEPT !.secs = @ + plus * SecondsPerHour] ELSE c

Adjust(c, plus) == PlusHours(to_datetime(remove_microseconds(c)), plus)

\* (df[filter_column] >= start) & (df[filter_column] < end); NaT compares False
InWindowClosed(c, start, end) ==
    c.t = "dt" /\ DtLeq(start, AsDatetime(c)) /\ DtLeq(AsDatetime(c), end)

InWindow(c, start, end) ==
    c.t = "dt" /\ DtLeq(start, AsDatetime(c)) /\ DtLess(AsDatetime(c), end)

ResolveNameFirst(rows) ==
    IF rows = <<>> THEN "DEFAULT" ELSE rows[1].client_name

\* unique_clients[0] if len(unique_clients) == 1 else "DEFAULT"
ResolveName(rows) ==
    LET unique_clients == {rows[i].client_name : i \in DOMAIN rows}
    IN  IF Cardinality(unique_clients) = 1
        THEN CHOOSE n \in unique_clients : TRUE ELSE "DEFAULT"

IsSucceed(r) == r.status_name = Label("Succeed")

\* filter_data_time(df, filter_column) with the window of self; the result is
\* df as mutated in place, self.DF and self.client_name, or the exception
filter_data_time(f, filter_column, start, end, oldDF, oldName) ==
    LET fails ==
            \/ "client_id" \notin f.cols
            \/ f.rows = <<>>
            \/ f.rows[1].client_id \notin DOMAIN CLIENTS
            \/ ~({"created_at", "accepted_at", "client_name", "status_name",
                  filter_column} \subseteq f.cols)
            \/ \E i \in DOMAIN f.rows : f.rows[i].accepted_at.t = "dt"
    IN  IF fails
        THEN [raised |-> TRUE, df |-> f, DF |-> oldDF, client_name |-> oldName]
        ELSE
          LET un_c == f.rows[1].client_id
              plus == CLIENTS[un_c].plus_time
              shifted == [i \in DOMAIN f.rows |->
                             [f.rows[i] EXCEPT !.accepted_at = Adjust(@, plus)]]
              windowed ==
                  Filter(shifted,
                         {i \in DOMAIN shifted :
                             InWindow(shifted[i][filter_column], start, end)})
              succeeded ==
                  Filter(windowed, {i \in DOMAIN windowed : IsSucceed(windowed[i])})
          IN  [raised |-> FALSE,
               df |-> Frame(f.cols, shifted),
               DF |-> Frame(f.cols, succeeded),
               client_name |-> ResolveName(windowed)]


----------------------------------------------------------------------------
\* result_save.

\* pd.to_datetime(value) + pd.Timedelta(seconds=1)
PlusSecond(c) == IF c.t = "dt" THEN [c EXCEPT !.secs = @ + 1] ELSE c

\* value.astype(int) // 10**9: whole seconds since the epoch
Epoch(c) == [t |-> "epoch", secs |-> c.secs, frac |-> 0]

\* the row as written: the selected columns, the time moved by one second and,
\* for a client of FILE_PREFIXES, turned into epoch seconds
Written(r, name) ==
    [external_id |-> r.external_id,
     client_name |-> r.client_name,
     accepted_at |-> IF name \in DOMAIN FILE_PREFIXES
                     THEN Epoch(PlusSecond(r.accepted_at))
                     ELSE PlusSecond(r.accepted_at),
     amount |-> r.amount,
     overall_commission |-> r.overall_commission,
     status_name |-> r.status_name,
     transaction_type |-> r.transaction_type,
     accepted_amount |-> r.accepted_amount]

\* the file name: prefix or client name, then strftime('%d.%m.%Y') of the two
\* ends of the window (the calendar day), then the extension
FileName(name, start, end) ==
    IF name \in DOMAIN FILE_PREFIXES
    THEN [stem |-> FILE_PREFIXES[name], from |-> DayOf(start), to |-> DayOf(end),
          ext |-> ".csv"]
    ELSE [stem |-> name, from |-> DayOf(start), to |-> DayOf(end),
          ext |-> "_2024.xlsx"]

\* self.DF[col] = pd.to_datetime(self.DF[col]) + pd.Timedelta(seconds=1), and the
\* epoch conversion: self.DF as result_save leaves it
Nudged(frame, name) ==
    Frame(frame.cols,
          [i \in DOMAIN frame.rows |->
              [frame.rows[i] EXCEPT !.accepted_at =
                  IF name \in DOMAIN FILE_PREFIXES
                  THEN Epoch(PlusSecond(@)) ELSE PlusSecond(@)]])

\* writing a file replaces the file of that name
WriteFile(fs, name, rows) ==
    {f \in fs : f.name # name} \cup {[name |-> name, rows |-> rows]}

result_save_no_checks(frame, name, start, end, dir, fs, ok) ==
    IF ok
    THEN [raised |-> FALSE, dirExists |-> TRUE, DF |-> Nudged(frame, name),
          files |-> WriteFile(fs, FileName(name, start, end),
                              [i \in DOMAIN frame.rows |-> Written(frame.rows[i], name)])]
    ELSE [raised |-> TRUE, dirExists |-> TRUE, DF |-> Nudged(frame, name),
          files |-> fs]

\* result_save on self.DF = frame, self.client_name = name; ok is whether
\* to_csv / to_excel succeeded.  The result is the exception flag, the
\* directory and the files.
result_save(frame, name, start, end, dir, fs, ok) ==
    IF empty(frame)
    THEN [raised |-> FALSE, dirExists |-> dir, DF |-> frame, files |-> fs]
    ELSE IF ~(selected_columns \subseteq frame.cols)
    THEN [raised |-> FALSE, dirExists |-> TRUE, DF |-> frame, files |-> fs]
    ELSE IF "client_id" \notin frame.cols
    THEN [raised |-> FALSE, dirExists |-> TRUE, DF |-> frame, files |-> fs]
    ELSE IF ok
    THEN [raised |-> FALSE, dirExists |-> TRUE, DF |-> Nudged(frame, name),
          files |-> WriteFile(fs, FileName(name, start, end),
                              [i \in DOMAIN frame.rows |-> Written(frame.rows[i], name)])]
    ELSE [raised |-> TRUE, dirExists |-> TRUE, DF |-> Nudged(frame, name),
          files |-> fs]


----------------------------------------------------------------------------
\* The job: the module body, __init__ and activate.

\* default of the parameter delta_time of get_current_day
DefaultDeltaTime == 0

\* number of calendar days the wall clock of a job can show
RunDays == 2
\* largest number of rows of the data store
MaxTable == 2
\* number of invocations of the job
MaxRuns == 2

\* the instants datetime.now() can return: one late in the evening of each day
\* (the window depends on the calendar day of the instant only)
RunClock == {At(d, 23, 30, 0) : d \in FirstDay..(FirstDay + RunDays - 1)}

\* a stored row; the payment-in table gives 'invoice', the payment-out table
\* 'withdraw' with amount = accepted_amount
Row(ext, cid, name, at, amt, acc, st, tt) ==
    [external_id |-> ext, client_id |-> cid, client_name |-> name,
     accepted_at |-> at, amount |-> amt, accepted_amount |-> acc,
     service_commission |-> Num(2), mid_commission |-> Num(1),
     overall_commission |-> Null, status_name |-> st, transaction_type |-> tt]

\* the external ids of the stored rows
ExtIds == {1, 2}

\* the accepted_at values of the stored rows: a time inside the one-day window
\* and a time inside the three-day window: at noon for the client without a
\* clock offset, in the last hours of the day for the client with one
StoredTimes(cid) ==
    {At(FirstDay, 10, 0, 0),
     IF CLIENTS[cid].plus_time = 0
     THEN At(FirstDay - 1, 12, 0, 0) ELSE At(FirstDay - 1, 22, 0, 0)}

\* the rows the data store may hold: two clients, one of them with a clock
\* offset; succeeded rows, and failed ones for the first client
StoredRows ==
    UNION {{Row(ext, c[1], c[2], Str(at, NoFrac), Num(5), Num(7), Code(st),
                "invoice") :
               ext \in ExtIds, at \in StoredTimes(c[1]), st \in c[3]} :
           c \in {<<1282, "P2P", {4, 3}>>, <<1235, "Acme", {4}>>}}

SeqsUpTo(S, n) == UNION {[1..k -> S] : k \in 0..n}

\* the data store: the first row has external id 1 (ids are interchangeable)
Tables == {t \in SeqsUpTo(StoredRows, MaxTable) : t # <<>> => t[1].external_id = 1}

NoDate == Datetime(0, 0)

\* nothing done yet for the client at position i of CLIENTS
Entry(i) ==
    [pos |-> i, fetches |-> 0, fetch_error |-> FALSE, steps |-> {},
     outcome |-> "pending"]

Init ==
    /\ pc = "load"
    /\ run = 1
    /\ idx = 1
    /\ now \in RunClock
    /\ delta_time = 0
    /\ start_date = NoDate
    /\ end_date = NoDate
    /\ col_filter = ""
    /\ df = EmptyFrame
    /\ DF = EmptyFrame
    /\ client_name = ""
    /\ dirExists \in BOOLEAN
    /\ files = {}
    /\ table \in Tables
    /\ fetched = EmptyFrame
    /\ cur = Entry(0)
    /\ windows = {}
    /\ reported = {}

\* shutil.rmtree("saveАвто") of the module body, then __init__: without the
\* directory rmtree raises FileNotFoundError and the process ends
ModuleLoad ==
    /\ pc = "load"
    /\ IF dirExists
       THEN /\ dirExists' = FALSE
            /\ files' = {}
            /\ pc' = "loop"
       ELSE /\ pc' = "crashed"
            /\ UNCHANGED <<dirExists, files>>
    /\ idx' = 1
    /\ DF' = EmptyFrame
    /\ col_filter' = ""
    /\ client_name' = ""
    /\ delta_time' = 0
    /\ UNCHANGED <<reported, run, now, start_date, end_date, df, table, fetched, cur, windows>>

\* the window activate asks for: self.get_current_day() with no argument
activate_window(today, config) == get_current_day(today, DefaultDeltaTime)

\* head of the for loop: col_filter, then the window from the clock read now
NextClient ==
    /\ pc = "loop"
    /\ idx <= Len(ClientOrder)
    /\ \E today \in RunClock :
          /\ DtLeq(now, today)
          /\ now' = today
          /\ LET client_id == ClientOrder[idx]
                 w == activate_window(today, CLIENTS[client_id])
             IN  /\ col_filter' = CLIENTS[client_id].columns_filter
                 /\ start_date' = w[1]
                 /\ end_date' = w[2]
                 /\ windows' = windows \cup {w}
    /\ cur' = Entry(idx)
    /\ pc' = "fetch"
    /\ UNCHANGED <<reported, run, idx, delta_time, df, DF, client_name, dirExists, files,
                   table, fetched>>

\* the for loop is exhausted: activate, __init__ and the module return
Finish ==
    /\ pc = "loop"
    /\ idx > Len(ClientOrder)
    /\ pc' = "done"
    /\ UNCHANGED <<reported, run, idx, now, delta_time, start_date, end_date, col_filter, df,
                   DF, client_name, dirExists, files, table, fetched, cur, windows>>

CreateDfRaises ==
    /\ pc = "fetch"
    /\ \E ok \in BOOLEAN :
          LET f == create_df(table, ClientOrder[idx], start_date, end_date, ok)
              e == [cur EXCEPT !.fetches = @ + 1, !.fetch_error = ~ok]
          IN  /\ df' = f
              /\ fetched' = f
              /\ IF ~ok
                 THEN /\ cur' = e
                      /\ pc' = "crashed"
                      /\ idx' = idx
                 ELSE IF empty(f)
                 THEN /\ cur' = [e EXCEPT !.outcome = "nodata"]
                      /\ pc' = "loop"
                      /\ idx' = idx + 1
                 ELSE /\ cur' = e
                      /\ pc' = "normalize"
                      /\ idx' = idx
    /\ UNCHANGED <<reported, run, now, delta_time, start_date, end_date, col_filter, DF,
                   client_name, dirExists, files, table, windows>>

\* df = self.create_df(...); if df.empty: continue
CreateDf ==
    /\ pc = "fetch"
    /\ \E ok \in BOOLEAN :
          LET f == create_df(table, ClientOrder[idx], start_date, end_date, ok)
              e == [cur EXCEPT !.fetches = @ + 1, !.fetch_error = ~ok]
          IN  /\ df' = f
              /\ fetched' = f
              /\ IF empty(f)
                 THEN /\ cur' = [e EXCEPT !.outcome = "nodata"]
                      /\ pc' = "loop"
                      /\ idx' = idx + 1
                 ELSE /\ cur' = e
                      /\ pc' = "normalize"
                      /\ idx' = idx
    /\ UNCHANGED <<reported, run, now, delta_time, start_date, end_date, col_filter, DF,
                   client_name, dirExists, files, table, windows>>

\* the external ids of the rows of the files written between two states of the
\* directory
WrittenIds(before, after) ==
    UNION {{f.rows[i].external_id : i \in DOMAIN f.rows} : f \in after \ before}

Step(e, name) == [e EXCEPT !.steps = @ \cup {name}]
Failed(e, name) == [e EXCEPT !.steps = @ \cup {name}, !.outcome = "failed"]
Saved(e, wrote) ==
    [e EXCEPT !.steps = @ \cup {"save"},
              !.outcome = IF wrote THEN "saved" ELSE "nofile"]

\* df = self.set_new_col(df); an exception is logged and raised again, and
\* nothing in activate, __init__ or the module catches it
SetNewCol ==
    /\ pc = "normalize"
    /\ \E out \in set_new_col(df, col_filter) :
          IF out.raised
          THEN /\ pc' = "crashed"
               /\ cur' = Failed(cur, "normalize")
               /\ df' = df
          ELSE /\ pc' = "filter"
               /\ cur' = Step(cur, "normalize")
               /\ df' = out.df
    /\ UNCHANGED <<reported, run, idx, now, delta_time, start_date, end_date, col_filter, DF,
                   client_name, dirExists, files, table, fetched, windows>>

\* df = self.filter_data_time(df, self.col_filter)
FilterDataTime ==
    /\ pc = "filter"
    /\ LET out == filter_data_time(df, col_filter, start_date, end_date, DF,
                                   client_name)
       IN  /\ df' = out.df
           /\ DF' = out.DF
           /\ client_name' = out.client_name
           /\ IF out.raised
              THEN /\ pc' = "crashed"
                   /\ cur' = Failed(cur, "filter")
              ELSE /\ pc' = "save"
                   /\ cur' = Step(cur, "filter")
    /\ UNCHANGED <<reported, run, idx, now, delta_time, start_date, end_date, col_filter,
                   dirExists, files, table, fetched, windows>>

ResultSaveSwallows ==
    /\ pc = "save"
    /\ \E ok \in BOOLEAN :
          LET out == result_save(DF, client_name, start_date, end_date, dirExists,
                                 files, ok)
          IN  /\ DF' = out.DF
              /\ dirExists' = out.dirExists
              /\ files' = out.files
              /\ reported' = reported \cup
                                ({run} \X WrittenIds(files, out.files))
              /\ pc' = "loop"
              /\ idx' = idx + 1
              /\ cur' = IF out.raised THEN Failed(cur, "save")
                        ELSE Saved(cur, out.files # files)
    /\ UNCHANGED <<run, now, delta_time, start_date, end_date, col_filter, df,
                   client_name, table, fetched, windows>>

\* self.result_save(); a failed write is logged and raised again
ResultSave ==
    /\ pc = "save"
    /\ \E ok \in BOOLEAN :
          LET out == result_save(DF, client_name, start_date, end_date, dirExists,
                                 files, ok)
          IN  /\ DF' = out.DF
              /\ dirExists' = out.dirExists
              /\ files' = out.files
              /\ reported' = reported \cup
                                ({run} \X WrittenIds(files, out.files))
              /\ IF out.raised
                 THEN /\ pc' = "crashed"
                      /\ idx' = idx
                      /\ cur' = Failed(cur, "save")
                 ELSE /\ pc' = "loop"
                      /\ idx' = idx + 1
                      /\ cur' = Saved(cur, out.files # files)
    /\ UNCHANGED <<run, now, delta_time, start_date, end_date, col_filter, df,
                   client_name, table, fetched, windows>>

\* the job is started again, as a new process, once the process before it has
\* ended: the directory and its files are what that process left, the clock
\* has not gone back
Relaunch ==
    /\ pc \in {"done", "crashed"}
    /\ run < MaxRuns
    /\ run' = run + 1
    /\ pc' = "load"
    /\ idx' = 1
    /\ \E today \in RunClock : DtLeq(now, today) /\ now' = today
    /\ delta_time' = 0
    /\ start_date' = NoDate
    /\ end_date' = NoDate
    /\ col_filter' = ""
    /\ df' = EmptyFrame
    /\ DF' = EmptyFrame
    /\ client_name' = ""
    /\ fetched' = EmptyFrame
    /\ cur' = Entry(0)
    /\ windows' = {}
    /\ UNCHANGED <<dirExists, files, table, reported>>

Next ==
    \/ ModuleLoad
    \/ NextClient
    \/ Finish
    \/ CreateDf
    \/ SetNewCol
    \/ FilterDataTime
    \/ ResultSave
    \/ Relaunch

Spec == Init /\ [][Next]_vars


----------------------------------------------------------------------------
\* Claims about the job.

Running == pc \in {"fetch", "normalize", "filter", "save"}
Ended == pc \in {"done", "crashed"}
NClients == Len(ClientOrder)

C2_WindowHourIsOffset ==
    Running =>
        /\ HourOf(start_date) = CLIENTS[ClientOrder[idx]].plus_time
        /\ HourOf(end_date) = CLIENTS[ClientOrder[idx]].plus_time

\* C5: when the extraction of a client fails or returns no row, create_df
\* returns an empty frame without raising, and the runner fetches once, runs
\* no normalize, filter or write step, leaves the directory and the files as
\* they are and goes on to the next position of the loop.
C5_EmptyFetchSkipsClient ==
    [][pc = "fetch" =>
          /\ cur'.fetches = 1
          /\ (cur'.fetch_error \/ fetched'.rows = <<>>) =>
                /\ empty(df')
                /\ cur'.outcome = "nodata"
                /\ cur'.steps = {}
                /\ pc' = "loop"
                /\ idx' = idx + 1
                /\ files' = files
                /\ dirExists' = dirExists
                /\ DF' = DF]_vars

\* the extraction failed for one client while the store holds rows for it, and
\* the loop has reached the next client
C5_Witness ==
    /\ pc = "loop"
    /\ cur.fetch_error
    /\ cur.outcome = "nodata"
    /\ idx = cur.pos + 1
    /\ \E i \in DOMAIN table : table[i].client_id = ClientOrder[cur.pos]

\* C10: every client's window of one run is derived from the same 'now': the
\* calendar dates of the window are the same for all clients of the run, also
\* when the clock passes midnight during the run.
C10_OneWindowPerRun ==
    \A v, w \in windows :
        DayOf(v[1]) = DayOf(w[1]) /\ DayOf(v[2]) = DayOf(w[2])


----------------------------------------------------------------------------
\* get_current_day on its own: every weekday, every offset.

WindowInputs ==
    {Datetime(At(d, h, ms[1], ms[2]).secs, u) :
        d \in FirstDay..(FirstDay + WindowDays - 1),
        h \in {0, 2, 23},
        ms \in {<<0, 0>>, <<59, 59>>},
        u \in {0, LastMicro}}

InitWindow ==
    /\ pc = "window_input"
    /\ run = 0
    /\ idx = 0
    /\ now \in WindowInputs
    /\ delta_time \in 0..23
    /\ start_date = NoDate
    /\ end_date = NoDate
    /\ col_filter = ""
    /\ df = EmptyFrame
    /\ DF = EmptyFrame
    /\ client_name = ""
    /\ dirExists = FALSE
    /\ files = {}
    /\ table = <<>>
    /\ fetched = EmptyFrame
    /\ cur = Entry(0)
    /\ windows = {}
    /\ reported = {}

\* start, end = self.get_current_day(delta_time) with datetime.now() = now
FnGetCurrentDay ==
    /\ pc = "window_input"
    /\ LET w == get_current_day(now, delta_time)
       IN  /\ start_date' = w[1]
           /\ end_date' = w[2]
           /\ windows' = {w}
    /\ pc' = "window_done"
    /\ UNCHANGED <<reported, run, idx, now, delta_time, col_filter, df, DF, client_name,
                   dirExists, files, table, fetched, cur>>

NextWindow == FnGetCurrentDay

SpecWindow == InitWindow /\ [][NextWindow]_vars

\* C3: for every 'now' and every offset 0..23, get_current_day returns start <
\* end, both at offset_hours o'clock sharp, exactly 3 days apart when 'now' is
\* a Monday and exactly 1 day apart on every other weekday.
C3_WindowShape ==
    pc = "window_done" =>
        /\ start_date.secs < end_date.secs
        /\ start_date.secs % SecondsPerDay = delta_time * SecondsPerHour
        /\ end_date.secs % SecondsPerDay = delta_time * SecondsPerHour
        /\ start_date.micro = 0
        /\ end_date.micro = 0
        /\ end_date.secs \div SecondsPerDay = now.secs \div SecondsPerDay
        /\ end_date.secs - start_date.secs =
              (IF (now.secs \div SecondsPerDay) % 7 = 0 THEN 3 ELSE 1) * SecondsPerDay

\* a Monday just before midnight, offset 3: the window is three days long
C3_Witness ==
    /\ pc = "window_done"
    /\ weekday(now) = 0
    /\ HourOf(now) = 23
    /\ delta_time = 3
    /\ end_date.secs - start_date.secs = 3 * SecondsPerDay


----------------------------------------------------------------------------
\* set_new_col, filter_data_time and result_save on record sets of one client.

\* the instant the window of the record sets is computed from
FnToday == At(FirstDay + 1, 12, 0, 0)
WinStart == get_current_day(FnToday, DefaultDeltaTime)[1]
WinEnd == get_current_day(FnToday, DefaultDeltaTime)[2]
Shift(d, secs) == [d EXCEPT !.secs = @ + secs]
Noon == Shift(WinStart, 10 * SecondsPerHour)

\* times around the window of client 1282: inside, at the start, at the end
\* with a fraction, just before the start with a fraction, unparseable, missing
TimeRows ==
    {Row(1, 1282, "P2P", at, Num(5), Num(7), Code(4), "invoice") :
        at \in {Str(Noon, NoFrac), Str(WinStart, NoFrac), Str(WinEnd, 250000),
                Str(Shift(WinStart, 0 - 1), 750000), BadStr, None}}

\* rows of client 1235, whose clock offset is 3 hours
OffsetRows ==
    {Row(1, 1235, "Acme", Str(Noon, NoFrac), Num(5), Num(7), Code(4), "invoice"),
     Row(1, 1235, "Acme", Str(Noon, NoFrac), Num(5), Num(7), Code(3), "invoice"),
     Row(2, 1235, "Acme", Str(Shift(WinEnd, 0 - 9000), 500000), Num(5), Num(7),
         Code(4), "invoice"),
     Row(2, 1235, "Acme", Str(WinEnd, NoFrac), Num(5), Num(7), Code(4), "invoice")}

\* other status codes, an unknown code, a missing status, and labels
StatusRows ==
    {Row(1, 1282, "P2P", Str(Noon, NoFrac), Num(5), Num(7), st, "invoice") :
        st \in {Code(3), Code(99), NoStatus, Label("Succeed"), Label("Provalno")}}

\* requested and accepted amounts: zero, missing, payout rows
AmountRows ==
    {Row(2, 1282, "P2P", Str(Shift(Noon, SecondsPerHour), NoFrac), a[2], a[3],
         Code(4), a[1]) :
        a \in {<<"invoice", Num(0), Num(7)>>, <<"invoice", Num(0), Num(0)>>,
               <<"invoice", Null, Num(7)>>, <<"withdraw", Num(7), Num(7)>>,
               <<"withdraw", Num(0), Num(0)>>}}

\* a second display name, and a client that is not configured
OtherRows ==
    {Row(2, 1282, "LLC", Str(Noon, NoFrac), Num(5), Num(7), Code(4), "invoice"),
     Row(1, 9999, "P2P", Str(Noon, NoFrac), Num(5), Num(7), Code(4), "invoice")}

FnRows == TimeRows \cup OffsetRows \cup StatusRows \cup AmountRows \cup OtherRows

\* record sets as the query returns them: all rows of one client
FnRowSeqs ==
    {r \in SeqsUpTo(FnRows, MaxRows) :
        \A i, j \in DOMAIN r : r[i].client_id = r[j].client_id}

InitFn ==
    /\ pc = "fn_input"
    /\ run = 0
    /\ idx = 0
    /\ now = FnToday
    /\ delta_time \in {0, 3}
    /\ start_date = get_current_day(FnToday, delta_time)[1]
    /\ end_date = get_current_day(FnToday, delta_time)[2]
    /\ col_filter = "accepted_at"
    /\ \E cols \in {QueryColumns, QueryColumns \ {"amount"}}, r \in FnRowSeqs :
          df = Frame(cols, r)
    /\ DF = EmptyFrame
    /\ client_name = ""
    /\ dirExists = FALSE
    /\ files = {}
    /\ table = <<>>
    /\ fetched = df
    /\ cur = Entry(0)
    /\ windows = {}
    /\ reported = {}

\* df = self.set_new_col(df)
FnSetNewCol ==
    /\ pc = "fn_input"
    /\ \E out \in set_new_col(df, col_filter) :
          /\ df' = out.df
          /\ pc' = IF out.raised THEN "fn_raised" ELSE "fn_normalized"
          /\ cur' = IF out.raised THEN Failed(cur, "normalize")
                    ELSE Step(cur, "normalize")
    /\ UNCHANGED <<reported, run, idx, now, delta_time, start_date, end_date, col_filter, DF,
                   client_name, dirExists, files, table, fetched, windows>>

\* set_new_col applied to its own result
FnSetNewColAgain ==
    /\ pc = "fn_normalized"
    /\ \E out \in set_new_col(df, col_filter) :
          /\ df' = out.df
          /\ pc' = IF out.raised THEN "fn_raised" ELSE "fn_renormalized"
          /\ cur' = IF out.raised THEN Failed(cur, "renormalize")
                    ELSE Step(cur, "renormalize")
    /\ UNCHANGED <<reported, run, idx, now, delta_time, start_date, end_date, col_filter, DF,
                   client_name, dirExists, files, table, fetched, windows>>

\* self.filter_data_time(df, self.col_filter), on the fetched or the
\* normalised record set
FnFilterDataTime ==
    /\ pc \in {"fn_input", "fn_normalized"}
    /\ LET out == filter_data_time(df, col_filter, start_date, end_date, DF,
                                   client_name)
       IN  /\ df' = out.df
           /\ DF' = out.DF
           /\ client_name' = out.client_name
           /\ pc' = IF out.raised THEN "fn_raised" ELSE "fn_filtered"
           /\ cur' = IF out.raised THEN Failed(cur, "filter") ELSE Step(cur, "filter")
    /\ UNCHANGED <<reported, run, idx, now, delta_time, start_date, end_date, col_filter,
                   dirExists, files, table, fetched, windows>>

\* the record set handed to result_save: self.DF, possibly without a column
FnHandOver ==
    /\ pc = "fn_filtered"
    /\ \E drop \in {{}, {"comment"}, {"client_id"}} :
          DF' = Frame(DF.cols \ drop, DF.rows)
    /\ pc' = "fn_save"
    /\ UNCHANGED <<reported, run, idx, now, delta_time, start_date, end_date, col_filter, df,
                   client_name, dirExists, files, table, fetched, cur, windows>>

\* self.result_save()
FnResultSave ==
    /\ pc = "fn_save"
    /\ \E ok \in BOOLEAN :
          LET out == result_save(DF, client_name, start_date, end_date, dirExists,
                                 files, ok)
          IN  /\ DF' = out.DF
              /\ dirExists' = out.dirExists
              /\ files' = out.files
              /\ pc' = IF out.raised THEN "fn_raised" ELSE "fn_saved"
              /\ cur' = IF out.raised THEN Failed(cur, "save")
                        ELSE Saved(cur, out.files # files)
    /\ UNCHANGED <<reported, run, idx, now, delta_time, start_date, end_date, col_filter, df,
                   client_name, table, fetched, windows>>

NextFn ==
    \/ FnSetNewCol
    \/ FnSetNewColAgain
    \/ FnFilterDataTime
    \/ FnHandOver
    \/ FnResultSave

SpecFn == InitFn /\ [][NextFn]_vars


----------------------------------------------------------------------------
\* Claims about the functions.

\* row r of a result is row q of the input, as far as the fields go that no
\* step changes
SameRecord(r, q) ==
    /\ r.external_id = q.external_id
    /\ r.client_id = q.client_id
    /\ r.client_name = q.client_name
    /\ r.accepted_amount = q.accepted_amount
    /\ r.service_commission = q.service_commission
    /\ r.mid_commission = q.mid_commission
    /\ r.transaction_type = q.transaction_type

\* the text of a timestamp without its fraction, plus the offset, in seconds;
\* defined for a parseable text
AdjustedSecs(c, plus) == c.secs + plus * SecondsPerHour
InRange(c, plus) ==
    /\ c.t = "str"
    /\ start_date.secs <= AdjustedSecs(c, plus)
    /\ AdjustedSecs(c, plus) < end_date.secs

\* C4: every row the time filter returns has its window-column value, with
\* the fraction cut off and the client's clock offset added, inside [start,
\* end), and has status label "Succeed"; a row at end, below start, with an
\* unparseable or missing value, or with another or no status is not returned.
C4_FilterKeepsWindowAndSucceed ==
    [][(pc \in {"fn_input", "fn_normalized"} /\ pc' = "fn_filtered") =>
          LET plus == CLIENTS[df.rows[1].client_id].plus_time
          IN  \A k \in DOMAIN DF'.rows :
                 /\ DF'.rows[k].status_name.t = "label"
                 /\ DF'.rows[k].status_name.label = "Succeed"
                 /\ \E i \in DOMAIN df.rows :
                       /\ SameRecord(DF'.rows[k], df.rows[i])
                       /\ df.rows[i].status_name = DF'.rows[k].status_name
                       /\ InRange(df.rows[i].accepted_at, plus)
                       /\ DF'.rows[k].accepted_at.t = "dt"
                       /\ DF'.rows[k].accepted_at.secs =
                             AdjustedSecs(df.rows[i].accepted_at, plus)
                       /\ DF'.rows[k].accepted_at.frac = 0]_vars

\* a succeeded row was returned while a succeeded row whose value, once the
\* fraction is cut off, equals end was not
C4_Witness ==
    /\ pc = "fn_filtered"
    /\ Len(DF.rows) = 1
    /\ Len(df.rows) = 2
    /\ \E i \in DOMAIN df.rows :
          /\ df.rows[i].accepted_at = Dt(end_date)
          /\ df.rows[i].status_name = Label("Succeed")
    /\ \E i \in DOMAIN fetched.rows : fetched.rows[i].accepted_at.frac > 0

\* the record set handed to result_save is one of the three cases of C6
NotWritable(f) ==
    \/ f.rows = <<>>
    \/ \E c \in selected_columns : c \notin f.cols
    \/ "client_id" \notin f.cols

\* C6: result_save writes no file and lets no exception escape when the
\* record set is empty, when one of the twelve output columns is absent, or
\* when the client id cannot be taken from the record set; the set of report
\* files is unchanged.
C6_NoFileWithoutData ==
    [][(pc = "fn_save" /\ NotWritable(DF)) =>
          (files' = files /\ pc' = "fn_saved" /\ cur'.outcome = "nofile")]_vars

\* result_save returned without a file for rows that lack the column comment,
\* and for rows that lack only client_id
C6_Witness ==
    /\ pc = "fn_saved"
    /\ DF.rows # <<>>
    /\ files = {}
    /\ \/ "comment" \notin DF.cols /\ "overall_commission" \in DF.cols
       \/ "client_id" \notin DF.cols /\ selected_columns \subseteq DF.cols

\* position i is the first of its external id in the fetched rows
IsFirst(rows, i) == \A j \in DOMAIN rows : rows[j].external_id = rows[i].external_id => i <= j

\* C7: after set_new_col no two rows share an external id, every external id
\* of the input is present, and the row kept is the first fetched one of its
\* id; two fetched rows with equal id and status 4 inside the window give
\* exactly one output row, labelled "Succeed".
C7_DedupKeepsFirst ==
    /\ pc = "fn_normalized" =>
          /\ \A i, j \in DOMAIN df.rows :
                df.rows[i].external_id = df.rows[j].external_id => i = j
          /\ \A i \in DOMAIN fetched.rows :
                \E k \in DOMAIN df.rows :
                    df.rows[k].external_id = fetched.rows[i].external_id
          /\ \A k \in DOMAIN df.rows :
                \E i \in DOMAIN fetched.rows :
                    /\ IsFirst(fetched.rows, i)
                    /\ SameRecord(df.rows[k], fetched.rows[i])
                    /\ df.rows[k].accepted_at = fetched.rows[i].accepted_at
                    /\ fetched.rows[i].status_name = Code(4)
                          <=> df.rows[k].status_name = Label("Succeed")
    /\ (/\ pc = "fn_filtered"
        /\ cur.steps = {"normalize", "filter"}
        /\ Len(fetched.rows) = 2
        /\ fetched.rows[1].external_id = fetched.rows[2].external_id
        /\ \A i \in 1..2 :
              /\ fetched.rows[i].status_name = Code(4)
              /\ InRange(fetched.rows[i].accepted_at,
                         CLIENTS[fetched.rows[i].client_id].plus_time))
       => (Len(DF.rows) = 1 /\ DF.rows[1].status_name = Label("Succeed"))

\* two fetched rows of one external id that differ (the first failed, the
\* second succeeded): the failed one is kept
C7_Witness ==
    /\ pc = "fn_normalized"
    /\ Len(fetched.rows) = 2
    /\ fetched.rows[1].external_id = fetched.rows[2].external_id
    /\ fetched.rows[1].status_name = Code(3)
    /\ fetched.rows[2].status_name = Code(4)
    /\ Len(df.rows) = 1
    /\ df.rows[1].status_name = Label("Provalno")

\* the four fields C8 names
Fields(r) == <<r.external_id, r.amount, r.status_name, r.overall_commission>>

\* every timestamp of the record set is a text the data store produces
Stored(rows) == \A i \in DOMAIN rows : rows[i].accepted_at.t = "str"

\* C8 (as stated): set_new_col applied to its own output yields the same
\* records with the same external id, amount, status label and overall
\* commission in the same order (here for record sets as the data store
\* produces them).
C8_Idempotent ==
    [][(pc = "fn_normalized" /\ pc' = "fn_renormalized" /\ Stored(df.rows)) =>
          /\ Len(df'.rows) = Len(df.rows)
          /\ \A k \in DOMAIN df.rows : Fields(df'.rows[k]) = Fields(df.rows[k])]_vars

\* C8 (amended): set_new_col applied to its own output keeps the records,
\* their external ids, amounts and overall commissions and the ascending
\* order of the window column, but every status label becomes missing,
\* because the labels are not keys of STATUS_DICT.
C8_IdempotentButStatus ==
    [][(pc = "fn_normalized" /\ pc' = "fn_renormalized") =>
          /\ Len(df'.rows) = Len(df.rows)
          /\ \A k \in DOMAIN df'.rows : df'.rows[k].status_name = NoStatus
          /\ \E p \in Perms(Len(df.rows)) :
                \A k \in DOMAIN df.rows :
                    /\ df'.rows[k] = [df.rows[p[k]] EXCEPT !.status_name = NoStatus]
                    /\ (\A j \in DOMAIN df.rows :
                           df.rows[j].accepted_at = df.rows[k].accepted_at => j = k)
                          => p[k] = k]_vars

\* a record set with a succeeded row was normalised twice
C8_Witness ==
    /\ pc = "fn_renormalized"
    /\ \E i \in DOMAIN fetched.rows : fetched.rows[i].status_name = Code(4)
    /\ df.rows # <<>>

\* C9 (as stated): after set_new_col no record has a zero or missing amount
\* (here for record sets as the data store produces them).
C9_AmountNeverZero ==
    (pc = "fn_normalized" /\ Stored(df.rows)) =>
        \A k \in DOMAIN df.rows : ~df.rows[k].amount.na /\ df.rows[k].amount.v # 0

\* C9 (amended): after set_new_col every payout ('withdraw') record and every
\* record whose requested amount was zero has amount equal to its
\* accepted_amount, and every other record keeps its amount; the amount is
\* still zero or missing when that accepted_amount is, or when the requested
\* amount of a payment-in record was missing.
C9_AmountBackfilled ==
    pc = "fn_normalized" =>
        \A k \in DOMAIN df.rows :
            \E i \in DOMAIN fetched.rows :
                /\ IsFirst(fetched.rows, i)
                /\ SameRecord(df.rows[k], fetched.rows[i])
                /\ LET q == fetched.rows[i]
                   IN  IF q.transaction_type = "withdraw" \/ q.amount = Num(0)
                       THEN df.rows[k].amount = q.accepted_amount
                       ELSE df.rows[k].amount = q.amount

\* a payment-in record with requested amount 0 and accepted amount 7 left
\* set_new_col with amount 7
C9_Witness ==
    /\ pc = "fn_normalized"
    /\ \E i \in DOMAIN fetched.rows :
          /\ fetched.rows[i].transaction_type = "invoice"
          /\ fetched.rows[i].amount = Num(0)
          /\ fetched.rows[i].accepted_amount = Num(7)
          /\ \E k \in DOMAIN df.rows :
                /\ df.rows[k].external_id = fetched.rows[i].external_id
                /\ df.rows[k].amount = Num(7)


\* the display names of the rows of the record set whose adjusted value is in
\* the window, whatever their status
WindowNames(rows, plus) ==
    {rows[i].client_name :
        i \in {j \in DOMAIN rows : InRange(rows[j].accepted_at, plus)}}

\* C11: the name resolution of the time filter never errors and gives the one
\* client name when exactly one distinct name occurs among the rows that
\* passed the window filter (rows of any status), and "DEFAULT" otherwise:
\* with two or more names (then the result is neither of them) and with no
\* row in the window.
C11_NameResolution ==
    [][(/\ "filter" \notin cur.steps
        /\ "filter" \in cur'.steps
        /\ df.rows # <<>>
        /\ df.rows[1].client_id \in DOMAIN CLIENTS) =>
          LET names == WindowNames(df.rows, CLIENTS[df.rows[1].client_id].plus_time)
          IN  /\ pc' = "fn_filtered"
              /\ Cardinality(names) = 1 => client_name' \in names
              /\ Cardinality(names) # 1 => client_name' = "DEFAULT"
              /\ Cardinality(names) >= 2 => client_name' \notin names]_vars

\* two rows with different display names passed the window filter, the second
\* of them not succeeded, and the name is the sentinel
C11_Witness ==
    /\ pc = "fn_filtered"
    /\ client_name = "DEFAULT"
    /\ Len(df.rows) = 2
    /\ df.rows[1].client_name # df.rows[2].client_name
    /\ \A i \in 1..2 : InWindow(df.rows[i].accepted_at, start_date, end_date)
    /\ Len(DF.rows) = 1


----------------------------------------------------------------------------
\* The job as a daily job: it is started once on each weekday, first on the
\* Monday of FirstDay with the output directory in place, the clock stays on
\* that day while the job runs, the data store answers every query and every
\* write succeeds.  The steps are those of the job.

DailyFirstClock == At(FirstDay, 23, 30, 0)

\* the day of the next start: the next weekday
NextRunDay(today) == DayOf(today) + (IF weekday(today) = 4 THEN 3 ELSE 1)

InitDaily ==
    /\ Init
    /\ now = DailyFirstClock
    /\ dirExists

DailyNextClient == NextClient /\ DayOf(now') = DayOf(now)

DailyCreateDf == CreateDf /\ ~cur'.fetch_error

DailyResultSave == ResultSave /\ cur'.outcome # "failed"

DailyRelaunch ==
    /\ pc = "done"
    /\ Relaunch
    /\ DayOf(now') = NextRunDay(now)

NextDaily ==
    \/ ModuleLoad
    \/ DailyNextClient
    \/ Finish
    \/ DailyCreateDf
    \/ SetNewCol
    \/ FilterDataTime
    \/ DailyResultSave
    \/ DailyRelaunch

SpecDaily == InitDaily /\ [][NextDaily]_vars

\* C12: every invocation of the job starts and goes through all configured
\* clients whatever the invocation before it did, also after an invocation in
\* which no client had rows to write: an invocation that has ended has ended
\* past the last client of the loop.
C12_EveryInvocationRuns ==
    Ended => (pc = "done" /\ idx > NClients)

\* start of the window of the first daily run
SpanStart == get_current_day(DailyFirstClock, DefaultDeltaTime)[1]

\* the record's accepted_at, as stored and with the client's clock offset
\* added, lies between the start of the first run's window and the end of the
\* window of the run that has just ended
Covered(r) ==
    LET raw == r.accepted_at.secs
        adj == AdjustedSecs(r.accepted_at, CLIENTS[r.client_id].plus_time)
    IN  /\ r.accepted_at.t = "str"
        /\ SpanStart.secs <= raw /\ raw < end_date.secs
        /\ SpanStart.secs <= adj /\ adj < end_date.secs

UniqueIds(tbl) ==
    \A i, j \in DOMAIN tbl : tbl[i].external_id = tbl[j].external_id => i = j

\* the invocations that wrote a row of external id e
RunsReporting(e) == {r \in 1..run : <<r, e>> \in reported}

\* C13: with one run on each consecutive weekday, stable data and unique
\* external ids, every record of status code 4, of every client, the clients
\* with a clock offset included, is in the output rows of exactly one run:
\* once the runs up to some day have ended, no such record was written by two
\* of them and each such record the windows so far cover was written by one.
C13_ReportedExactlyOnce ==
    (pc = "done" /\ UniqueIds(table)) =>
        \A i \in DOMAIN table :
            table[i].status_name = Code(4) =>
                /\ Cardinality(RunsReporting(table[i].external_id)) <= 1
                /\ Covered(table[i]) =>
                      Cardinality(RunsReporting(table[i].external_id)) = 1


----------------------------------------------------------------------------
\* Normalize, then filter, for one client.

\* C14: if a fetched record of external id X has status code 4 and its
\* window-column value, with the client's clock offset added, is inside
\* [start, end), then the output of normalize followed by filter has a row of
\* external id X: the deduplication by external id, done before the window and
\* status filters, never removes the only qualifying record of an id.
C14_QualifyingIdIsKept ==
    (/\ pc = "fn_filtered"
     /\ cur.steps = {"normalize", "filter"}
     /\ Stored(fetched.rows)) =>
        \A i \in DOMAIN fetched.rows :
            LET r == fetched.rows[i]
            IN  (/\ r.status_name = Code(4)
                 /\ r.client_id \in DOMAIN CLIENTS
                 /\ InRange(r.accepted_at, CLIENTS[r.client_id].plus_time)) =>
                    \E k \in DOMAIN DF.rows : DF.rows[k].external_id = r.external_id


====
